---- MODULE Spec2Model ----
(***************************************************************************)
(* Model of rsa-image-encryption-demo:                                     *)
(*   image_encrypt_demo.py  XOR image cipher on numpy uint8 arrays         *)
(*   rsa_demo.py            RSA key pair, PEM persistence, OAEP            *)
(*                                                                         *)
(* Three specifications share the variables below:                         *)
(*   Spec      calls of the image functions on arbitrary 2-D buffers       *)
(*   SpecMain  main() of image_encrypt_demo.py, statement by statement     *)
(*   SpecRSA   calls of the rsa_demo.py functions and its main()           *)
(***************************************************************************)
EXTENDS Integers, Sequences, FiniteSets, TLC

VARIABLES
    op,              \* Spec: the image function called last
    arg1, arg2,      \* Spec: its two arguments
    ret,             \* Spec: what it returned or raised
    plain,           \* Spec: decrypt_image(ret, arg2) after an encrypt_image
    pc,              \* SpecMain: position in main()
    img_arr1, img_arr2, key_arr1, key_arr2,
    cipher_arr1, cipher_arr2, decrypted_arr1, is_same, xor_cipher,
    gen_calls,       \* SpecMain: the generate_key_matrix calls made so far
    enc_calls,       \* SpecMain: the encrypt_image calls made so far
    rpc,             \* SpecRSA: the rsa_demo.py call made last
    min_key_size,    \* SpecRSA: smallest key size the installed package takes
    key_size,        \* SpecRSA: argument of generate_rsa_key_pair
    private_key, public_key,
    save_password,   \* SpecRSA: password given to save_private_key_to_pem
    private_pem, public_pem,               \* SpecRSA: the two files
    load_password,   \* SpecRSA: password given to load_private_key_from_pem
    loaded_private_key, loaded_public_key, \* SpecRSA: what the loads gave
    reloaded,        \* SpecRSA: rsa_encrypt was given the reloaded public key
    plaintext, ciphertext, decrypted

imgvars == <<op, arg1, arg2, ret, plain>>
mainvars == <<pc, img_arr1, img_arr2, key_arr1, key_arr2, cipher_arr1,
              cipher_arr2, decrypted_arr1, is_same, xor_cipher, gen_calls,
              enc_calls>>
rsavars == <<rpc, min_key_size, key_size, private_key, public_key,
             save_password, private_pem, public_pem, load_password,
             loaded_private_key, loaded_public_key, reloaded, plaintext,
             ciphertext, decrypted>>
vars == <<imgvars, mainvars, rsavars>>

----------------------------------------------------------------------------
(* Bounds of the model.                                                    *)

\* Largest height and width of a buffer passed to the image functions.
MaxDim == 4
\* Buffers of one shape differ by their content index, 0..MaxSeed.
MaxSeed == 3
\* Largest height and width of an image main() loads.
MainMaxDim == 2
\* Content indices of the images and keys of main().
MainMaxSeed == 2
\* Bits of a byte and bytes of a digest in the reduced-scale RSA.
ByteBits == 2
HashLen == 1
\* Plaintexts given to rsa_encrypt: lengths 0..MaxPlainLen, and for each
\* length the contents of index 0..MaxPlainIdx.
MaxPlainLen == 5
MaxPlainIdx == 2
\* OAEP seeds rsa_encrypt can draw: the encodings of 0..MaxOaepSeed.
MaxOaepSeed == 3

----------------------------------------------------------------------------
(* numpy uint8 arrays of two dimensions.                                   *)

None == [none |-> TRUE]

\* A raised Python exception.
Raise(e) == [ok |-> FALSE, err |-> e]

\* np.ndarray of dtype uint8 and shape (h, w); px[i][j] is the cell.
Array(h, w, px) == [ok |-> TRUE, h |-> h, w |-> w, px |-> px]

shape(a) == <<a.h, a.w>>

Min(x, y) == IF x <= y THEN x ELSE y

\* The ^ of two uint8 values, bit by bit.
RECURSIVE bitwise_xor_u8(_, _)
bitwise_xor_u8(x, y) ==
    IF x = 0 THEN y
    ELSE IF y = 0 THEN x
    ELSE (((x % 2) + (y % 2)) % 2) + 2 * bitwise_xor_u8(x \div 2, y \div 2)

\* numpy's broadcasting of one dimension: equal sizes, or one of them 1.
BroadcastDim(m, n) == IF m = n THEN m ELSE IF m = 1 THEN n ELSE IF n = 1 THEN m ELSE -1

\* np.bitwise_xor(a, b): broadcasts the operands to a common shape, and
\* raises ValueError ("operands could not be broadcast together") when a
\* dimension differs and neither size is 1.
bitwise_xor(a, b) ==
    LET h == BroadcastDim(a.h, b.h)
        w == BroadcastDim(a.w, b.w)
        x(i, j) == a.px[IF a.h = 1 THEN 1 ELSE i][IF a.w = 1 THEN 1 ELSE j]
        y(i, j) == b.px[IF b.h = 1 THEN 1 ELSE i][IF b.w = 1 THEN 1 ELSE j]
    IN  IF h < 0 \/ w < 0 THEN Raise("ValueError")
        ELSE Array(h, w, [i \in 1..h |-> [j \in 1..w |->
                              bitwise_xor_u8(x(i, j), y(i, j))]])

\* a[:h, :w]
Slice(a, h, w) ==
    Array(Min(h, a.h), Min(w, a.w),
          [i \in 1..Min(h, a.h) |-> [j \in 1..Min(w, a.w) |-> a.px[i][j]]])

----------------------------------------------------------------------------
(* The contents the model draws buffers from: index 0 is the all-zero      *)
(* buffer, 1 the all-255 buffer, the others vary from cell to cell.        *)

Pixel(s, i, j) ==
    IF s = 0 THEN 0
    ELSE IF s = 1 THEN 255
    ELSE (41 * s + 67 * s * i + 113 * j) % 256

Fill(h, w, s) == Array(h, w, [i \in 1..h |-> [j \in 1..w |-> Pixel(s, i, j)]])

Buffers(maxdim, maxseed) ==
    {Fill(h, w, s) : h \in 0..maxdim, w \in 0..maxdim, s \in 0..maxseed}

Images(maxdim, maxseed) ==
    {Fill(h, w, s) : h \in 1..maxdim, w \in 1..maxdim, s \in 0..maxseed}

----------------------------------------------------------------------------
(* image_encrypt_demo.py                                                   *)

\* The draws np.random.randint(0, 256, size=shape, dtype=np.uint8) can
\* return: one array per content index, every cell in 0..255.
randint_0_256(h, w, maxseed) == {Fill(h, w, s) : s \in 0..maxseed}

\* generate_key_matrix(shape): the set of its possible outcomes. randint
\* raises ValueError ("negative dimensions are not allowed") for a negative
\* dimension and returns an array without cells for a zero one.
\* Mutant: the shape's two dimensions swapped.
generate_key_matrix_swapped(h, w, maxseed) ==
    IF h < 0 \/ w < 0 THEN {Raise("ValueError")}
    ELSE randint_0_256(w, h, maxseed)

generate_key_matrix(h, w, maxseed) ==
    IF h < 0 \/ w < 0 THEN {Raise("ValueError")}
    ELSE randint_0_256(h, w, maxseed)

\* Mutant: the image is returned as it came.
encrypt_image_copy(image_arr, key_arr) == image_arr

encrypt_image(image_arr, key_arr) == bitwise_xor(image_arr, key_arr)

\* Mutant: the key is combined with itself instead of with the ciphertext.
decrypt_image_key(cipher_arr, key_arr) == bitwise_xor(key_arr, key_arr)

decrypt_image(cipher_arr, key_arr) == bitwise_xor(cipher_arr, key_arr)

\* Mutant: the operands are not cut to their common size.
xor_two_cipher_images_uncut(c1, c2) == bitwise_xor(c1, c2)

xor_two_cipher_images(c1, c2) ==
    LET h == Min(c1.h, c2.h)
        w == Min(c1.w, c2.w)
        sub1 == Slice(c1, h, w)
        sub2 == Slice(c2, h, w)
    IN  bitwise_xor(sub1, sub2)

----------------------------------------------------------------------------
(* Spec: one call of an image function on arbitrary buffers (and, after an *)
(* encrypt_image, the decrypt_image of its result).                        *)

MainIdle ==
    /\ pc = "idle"
    /\ img_arr1 = None /\ img_arr2 = None /\ key_arr1 = None /\ key_arr2 = None
    /\ cipher_arr1 = None /\ cipher_arr2 = None /\ decrypted_arr1 = None
    /\ is_same = None /\ xor_cipher = None
    /\ gen_calls = <<>> /\ enc_calls = <<>>

ImgIdle ==
    /\ op = "none" /\ arg1 = None /\ arg2 = None /\ ret = None /\ plain = None

RsaIdle ==
    /\ rpc = "idle" /\ min_key_size = None /\ key_size = None
    /\ private_key = None /\ public_key = None /\ save_password = None
    /\ private_pem = None /\ public_pem = None /\ load_password = None
    /\ loaded_private_key = None /\ loaded_public_key = None
    /\ reloaded = None /\ plaintext = None /\ ciphertext = None
    /\ decrypted = None

Init == ImgIdle /\ MainIdle /\ RsaIdle

CallGenerateKeyMatrix ==
    /\ op = "none"
    /\ \E h \in -1..MaxDim, w \in -1..MaxDim :
        /\ op' = "generate_key_matrix"
        /\ arg1' = <<h, w>>
        /\ arg2' = None
        /\ ret' \in generate_key_matrix(h, w, MaxSeed)
        /\ plain' = None
        /\ UNCHANGED <<mainvars, rsavars>>

CallEncrypt ==
    /\ op = "none"
    /\ \E R \in Buffers(MaxDim, MaxSeed), K \in Buffers(MaxDim, MaxSeed) :
        /\ op' = "encrypt_image"
        /\ arg1' = R
        /\ arg2' = K
        /\ ret' = encrypt_image(R, K)
        /\ plain' = None
        /\ UNCHANGED <<mainvars, rsavars>>

\* decrypt_image called on a buffer and a key of different shapes.
CallDecrypt ==
    /\ op = "none"
    /\ \E C \in Buffers(MaxDim, MaxSeed), K \in Buffers(MaxDim, MaxSeed) :
        /\ shape(C) # shape(K)
        /\ op' = "decrypt_image"
        /\ arg1' = C
        /\ arg2' = K
        /\ ret' = decrypt_image(C, K)
        /\ plain' = None
        /\ UNCHANGED <<mainvars, rsavars>>

\* decrypt_image on the ciphertext encrypt_image returned, with its key.
CallDecryptCipher ==
    /\ op = "encrypt_image" /\ ret.ok
    /\ op' = "encrypt_then_decrypt"
    /\ plain' = decrypt_image(ret, arg2)
    /\ UNCHANGED <<arg1, arg2, ret>>
    /\ UNCHANGED <<mainvars, rsavars>>

CallXorTwo ==
    /\ op = "none"
    /\ \E c1 \in Buffers(MaxDim, MaxSeed), c2 \in Buffers(MaxDim, MaxSeed) :
        /\ op' = "xor_two_cipher_images"
        /\ arg1' = c1
        /\ arg2' = c2
        /\ ret' = xor_two_cipher_images(c1, c2)
        /\ plain' = None
        /\ UNCHANGED <<mainvars, rsavars>>

Next ==
    \/ CallGenerateKeyMatrix
    \/ CallEncrypt
    \/ CallDecrypt
    \/ CallDecryptCipher
    \/ CallXorTwo

Spec == Init /\ [][Next]_vars

----------------------------------------------------------------------------
(* SpecMain: main() of image_encrypt_demo.py. A key array is a Python      *)
(* object: [id, arr], id the number of the generate_key_matrix call that   *)
(* made it, so that two keys of equal content stay two objects.            *)

array_equal(a, b) == shape(a) = shape(b) /\ a.px = b.px

MainInit ==
    /\ ImgIdle
    /\ RsaIdle
    /\ pc = "load1"
    /\ img_arr1 = None /\ img_arr2 = None /\ key_arr1 = None /\ key_arr2 = None
    /\ cipher_arr1 = None /\ cipher_arr2 = None /\ decrypted_arr1 = None
    /\ is_same = None /\ xor_cipher = None
    /\ gen_calls = <<>> /\ enc_calls = <<>>

\* img_arr1 = load_gray_image(input_image_path1)
MainLoad1 ==
    /\ pc = "load1"
    /\ img_arr1' \in Images(MainMaxDim, MainMaxSeed)
    /\ pc' = "load2"
    /\ UNCHANGED <<img_arr2, key_arr1, key_arr2, cipher_arr1, cipher_arr2,
                   decrypted_arr1, is_same, xor_cipher, gen_calls, enc_calls>>
    /\ UNCHANGED <<imgvars, rsavars>>

\* if os.path.exists(input_image_path2): img_arr2 = load_gray_image(...)
\* else: img_arr2 = None
MainLoad2 ==
    /\ pc = "load2"
    /\ img_arr2' \in Images(MainMaxDim, MainMaxSeed) \cup {None}
    /\ pc' = "key1"
    /\ UNCHANGED <<img_arr1, key_arr1, key_arr2, cipher_arr1, cipher_arr2,
                   decrypted_arr1, is_same, xor_cipher, gen_calls, enc_calls>>
    /\ UNCHANGED <<imgvars, rsavars>>

\* key_arr1 = generate_key_matrix(img_arr1.shape)
MainKey1 ==
    /\ pc = "key1"
    /\ \E k \in generate_key_matrix(img_arr1.h, img_arr1.w, MainMaxSeed) :
        /\ key_arr1' = [id |-> Len(gen_calls) + 1, arr |-> k]
        /\ gen_calls' = Append(gen_calls, [shape |-> shape(img_arr1)])
    /\ pc' = "encrypt1"
    /\ UNCHANGED <<img_arr1, img_arr2, key_arr2, cipher_arr1, cipher_arr2,
                   decrypted_arr1, is_same, xor_cipher, enc_calls>>
    /\ UNCHANGED <<imgvars, rsavars>>

\* cipher_arr1 = encrypt_image(img_arr1, key_arr1), saved; its statistics
\* are printed.
MainEncrypt1 ==
    /\ pc = "encrypt1"
    /\ cipher_arr1' = encrypt_image(img_arr1, key_arr1.arr)
    /\ enc_calls' = Append(enc_calls, [image |-> 1, shape |-> shape(img_arr1),
                                       key |-> key_arr1.id,
                                       made |-> Len(gen_calls)])
    /\ pc' = "decrypt1"
    /\ UNCHANGED <<img_arr1, img_arr2, key_arr1, key_arr2, cipher_arr2,
                   decrypted_arr1, is_same, xor_cipher, gen_calls>>
    /\ UNCHANGED <<imgvars, rsavars>>

\* decrypted_arr1 = decrypt_image(cipher_arr1, key_arr1)
MainDecrypt1 ==
    /\ pc = "decrypt1"
    /\ decrypted_arr1' = decrypt_image(cipher_arr1, key_arr1.arr)
    /\ pc' = "verify"
    /\ UNCHANGED <<img_arr1, img_arr2, key_arr1, key_arr2, cipher_arr1,
                   cipher_arr2, is_same, xor_cipher, gen_calls, enc_calls>>
    /\ UNCHANGED <<imgvars, rsavars>>

\* is_same = np.array_equal(img_arr1, decrypted_arr1); if img_arr2 is not None
MainVerify ==
    /\ pc = "verify"
    /\ is_same' = array_equal(img_arr1, decrypted_arr1)
    /\ pc' = IF img_arr2 # None THEN "key2" ELSE "done"
    /\ UNCHANGED <<img_arr1, img_arr2, key_arr1, key_arr2, cipher_arr1,
                   cipher_arr2, decrypted_arr1, xor_cipher, gen_calls,
                   enc_calls>>
    /\ UNCHANGED <<imgvars, rsavars>>

\* key_arr2 = generate_key_matrix(img_arr2.shape)
MainKey2 ==
    /\ pc = "key2"
    /\ \E k \in generate_key_matrix(img_arr2.h, img_arr2.w, MainMaxSeed) :
        /\ key_arr2' = [id |-> Len(gen_calls) + 1, arr |-> k]
        /\ gen_calls' = Append(gen_calls, [shape |-> shape(img_arr2)])
    /\ pc' = "encrypt2"
    /\ UNCHANGED <<img_arr1, img_arr2, key_arr1, cipher_arr1, cipher_arr2,
                   decrypted_arr1, is_same, xor_cipher, enc_calls>>
    /\ UNCHANGED <<imgvars, rsavars>>

\* Mutant: image 2 encrypted under key_arr1.
MainEncrypt2_key1 ==
    /\ pc = "encrypt2"
    /\ cipher_arr2' = encrypt_image(img_arr2, key_arr1.arr)
    /\ enc_calls' = Append(enc_calls, [image |-> 2, shape |-> shape(img_arr2),
                                       key |-> key_arr1.id,
                                       made |-> Len(gen_calls)])
    /\ pc' = "xor"
    /\ UNCHANGED <<img_arr1, img_arr2, key_arr1, key_arr2, cipher_arr1,
                   decrypted_arr1, is_same, xor_cipher, gen_calls>>
    /\ UNCHANGED <<imgvars, rsavars>>

\* cipher_arr2 = encrypt_image(img_arr2, key_arr2)
MainEncrypt2 ==
    /\ pc = "encrypt2"
    /\ cipher_arr2' = encrypt_image(img_arr2, key_arr2.arr)
    /\ enc_calls' = Append(enc_calls, [image |-> 2, shape |-> shape(img_arr2),
                                       key |-> key_arr2.id,
                                       made |-> Len(gen_calls)])
    /\ pc' = "xor"
    /\ UNCHANGED <<img_arr1, img_arr2, key_arr1, key_arr2, cipher_arr1,
                   decrypted_arr1, is_same, xor_cipher, gen_calls>>
    /\ UNCHANGED <<imgvars, rsavars>>

\* xor_cipher = xor_two_cipher_images(cipher_arr1, cipher_arr2)
MainXor ==
    /\ pc = "xor"
    /\ xor_cipher' = xor_two_cipher_images(cipher_arr1, cipher_arr2)
    /\ pc' = "done"
    /\ UNCHANGED <<img_arr1, img_arr2, key_arr1, key_arr2, cipher_arr1,
                   cipher_arr2, decrypted_arr1, is_same, gen_calls, enc_calls>>
    /\ UNCHANGED <<imgvars, rsavars>>

MainNext ==
    \/ MainLoad1
    \/ MainLoad2
    \/ MainKey1
    \/ MainEncrypt1
    \/ MainDecrypt1
    \/ MainVerify
    \/ MainKey2
    \/ MainEncrypt2
    \/ MainXor

SpecMain == MainInit /\ [][MainNext]_vars

----------------------------------------------------------------------------
(* Properties of the image cipher.                                         *)

\* Exclusive or of two bytes, stated bit by bit: bit k of the result is 1
\* exactly when bit k of x and bit k of y differ.
Bit(x, k) == (x \div (2 ^ k)) % 2

RECURSIVE XorBits(_, _, _)
XorBits(x, y, k) ==
    IF k < 0 THEN 0
    ELSE (IF Bit(x, k) # Bit(y, k) THEN 2 ^ k ELSE 0) + XorBits(x, y, k - 1)

Xor(x, y) == XorBits(x, y, 7)

\* C1: decrypt_image(encrypt_image(R, K), K) is R, cell for cell, for every
\* buffer R and key K of the same shape.
C1_RoundTrip ==
    (op = "encrypt_then_decrypt" /\ shape(arg1) = shape(arg2))
        => /\ plain.ok
           /\ shape(plain) = shape(arg1)
           /\ plain.px = arg1.px

\* A 2x3 image encrypted under a key that changes it, then decrypted.
C1_Witness ==
    /\ op = "encrypt_then_decrypt"
    /\ shape(arg1) = <<2, 3>> /\ shape(arg2) = <<2, 3>>
    /\ ret.px # arg1.px
    /\ arg1.px[2][3] # 0 /\ arg2.px[2][3] \notin {0, 255}
    /\ plain.ok

\* C2 (as claimed): encrypt_image and decrypt_image raise whenever the key's
\* shape differs from the buffer's, and return no array; stated for buffers
\* and keys that have cells.
C2_ShapeMismatchRaises ==
    (op \in {"encrypt_image", "decrypt_image"} /\ shape(arg1) # shape(arg2)
            /\ arg1.h >= 1 /\ arg1.w >= 1 /\ arg2.h >= 1 /\ arg2.w >= 1)
        => ~ret.ok

\* C3: xor_two_cipher_images returns the (min(H1,H2), min(W1,W2)) array of
\* the cell-wise exclusive or of the operands' top-left regions, whatever
\* their shapes.
C3_XorTwoRegion ==
    op = "xor_two_cipher_images"
        => /\ ret.ok
           /\ ret.h = Min(arg1.h, arg2.h)
           /\ ret.w = Min(arg1.w, arg2.w)
           /\ DOMAIN ret.px = 1..ret.h
           /\ \A i \in 1..ret.h : DOMAIN ret.px[i] = 1..ret.w
           /\ \A i \in 1..ret.h : \A j \in 1..ret.w :
                  ret.px[i][j] = Xor(arg1.px[i][j], arg2.px[i][j])
           /\ (arg1 = Fill(4, 4, 0) /\ arg2 = Fill(4, 4, 1)) => ret = Fill(4, 4, 1)

\* A 2x2 buffer combined with a 3x3 one gives a 2x2 result.
C3_Witness ==
    /\ op = "xor_two_cipher_images"
    /\ shape(arg1) = <<2, 2>> /\ shape(arg2) = <<3, 3>>
    /\ ret.ok /\ shape(ret) = <<2, 2>>
    /\ ret.px[2][2] \notin {arg1.px[2][2], arg2.px[2][2]}

InByteRange(a) == \A i \in 1..a.h : \A j \in 1..a.w : a.px[i][j] \in 0..255

\* C9 (as claimed): generate_key_matrix returns an H x W array of bytes for
\* H >= 1 and W >= 1, and raises for a zero or negative dimension.
C9_ZeroDimensionRaises ==
    op = "generate_key_matrix"
        => IF arg1[1] >= 1 /\ arg1[2] >= 1
           THEN ret.ok /\ shape(ret) = arg1 /\ InByteRange(ret)
           ELSE ~ret.ok

\* C9 (amended): generate_key_matrix returns an H x W array of bytes for
\* H >= 0 and W >= 0, without cells when a dimension is zero, and raises
\* only for a negative dimension.
C9_NegativeDimensionRaises ==
    op = "generate_key_matrix"
        => IF arg1[1] >= 0 /\ arg1[2] >= 0
           THEN /\ ret.ok /\ shape(ret) = arg1 /\ InByteRange(ret)
                /\ DOMAIN ret.px = 1..arg1[1]
                /\ \A i \in 1..arg1[1] : DOMAIN ret.px[i] = 1..arg1[2]
           ELSE ~ret.ok

\* generate_key_matrix((0, 2)) has returned an array without cells.
C9_Witness ==
    /\ op = "generate_key_matrix"
    /\ arg1 = <<0, 2>>
    /\ ret.ok /\ shape(ret) = <<0, 2>> /\ ret.px = <<>>

\* C8: in main() every encrypt_image call gets the key made by the
\* generate_key_matrix call just before it, asked for the shape of the image
\* being encrypted, and no key object is used with two images.
C8_KeyPerImage ==
    /\ \A n \in 1..Len(enc_calls) :
        LET c == enc_calls[n]
        IN  /\ c.key = c.made
            /\ c.key \in 1..Len(gen_calls)
            /\ gen_calls[c.key].shape = c.shape
    /\ \A m, n \in 1..Len(enc_calls) :
        enc_calls[m].key = enc_calls[n].key => enc_calls[m].image = enc_calls[n].image
    /\ pc \in {"xor", "done"} /\ img_arr2 # None => Len(enc_calls) = 2
    /\ pc \in {"decrypt1", "verify", "key2", "encrypt2"} => Len(enc_calls) = 1

\* Both images encrypted, under two keys of equal content.
C8_Witness ==
    /\ pc = "done"
    /\ Len(enc_calls) = 2
    /\ key_arr1.arr = key_arr2.arr
    /\ key_arr1.id # key_arr2.id
    /\ img_arr1 # img_arr2

\* C10: the combination of two ciphertexts is, over the common top-left
\* region, the exclusive or of the two images and of the two keys; with keys
\* of equal content it is the exclusive or of the two images alone.
C10_CombinedCiphertext ==
    (pc = "done" /\ img_arr2 # None)
        => LET P1 == img_arr1
               P2 == img_arr2
               K1 == key_arr1.arr
               K2 == key_arr2.arr
               X == xor_cipher
           IN  /\ X.ok
               /\ X.h = Min(P1.h, P2.h)
               /\ X.w = Min(P1.w, P2.w)
               /\ \A i \in 1..X.h : \A j \in 1..X.w :
                      X.px[i][j] = Xor(Xor(P1.px[i][j], P2.px[i][j]),
                                       Xor(K1.px[i][j], K2.px[i][j]))
               /\ K1 = K2 =>
                      \A i \in 1..X.h : \A j \in 1..X.w :
                          X.px[i][j] = Xor(P1.px[i][j], P2.px[i][j])

\* Two different images of different shapes, under keys that differ.
C10_Witness ==
    /\ pc = "done" /\ img_arr2 # None
    /\ shape(img_arr1) = <<2, 1>> /\ shape(img_arr2) = <<1, 2>>
    /\ key_arr1.arr.px[1][1] # key_arr2.arr.px[1][1]
    /\ xor_cipher.ok /\ shape(xor_cipher) = <<1, 1>>
    /\ xor_cipher.px[1][1] # Xor(img_arr1.px[1][1], img_arr2.px[1][1])

----------------------------------------------------------------------------
(* rsa_demo.py: the cryptography package it calls.                         *)
(*                                                                         *)
(* RSA is computed on real integers, at a reduced scale: a byte of the     *)
(* model has ByteBits bits, a digest HashLen bytes, and the primes are      *)
(* small enough for n * n to stay below 2^31. Byte strings are sequences   *)
(* of bytes, most significant first.                                       *)

Radix == 2 ^ ByteBits

RECURSIVE OS2IP(_)
OS2IP(X) == IF X = <<>> THEN 0 ELSE OS2IP(SubSeq(X, 1, Len(X) - 1)) * Radix + X[Len(X)]

RECURSIVE I2OSP(_, _)
I2OSP(x, len) == IF len = 0 THEN <<>> ELSE Append(I2OSP(x \div Radix, len - 1), x % Radix)

\* Length in bytes of the modulus n.
RECURSIVE ByteLen(_)
ByteLen(n) == IF n = 0 THEN 0 ELSE 1 + ByteLen(n \div Radix)

RECURSIVE ModExp(_, _, _)
ModExp(b, e, n) ==
    IF e = 0 THEN 1 % n
    ELSE LET h == ModExp(b, e \div 2, n)
             sq == (h * h) % n
         IN  IF e % 2 = 1 THEN (sq * (b % n)) % n ELSE sq

XorBytes(X, Y) == [i \in 1..Len(X) |-> bitwise_xor_u8(X[i], Y[i])]

\* hashes.SHA256() and hashes.SHA1(): a digest of HashLen bytes that
\* depends on every byte of the data and on the algorithm.
RECURSIVE HashAcc(_, _, _)
HashAcc(alg, data, acc) ==
    IF data = <<>> THEN acc
    ELSE HashAcc(alg, Tail(data),
                 (acc * (IF alg = "SHA256" THEN 37 ELSE 41) + Head(data) + 1) % 1009)

Hash(alg, data) ==
    I2OSP(HashAcc(alg, data, IF alg = "SHA256" THEN 7 ELSE 12) % (Radix ^ HashLen), HashLen)

\* padding.MGF1(algorithm): the first len bytes of
\* Hash(seed || 0) || Hash(seed || 1) || ...
RECURSIVE MGF1(_, _, _, _)
MGF1(alg, seed, len, counter) ==
    IF len <= 0 THEN <<>>
    ELSE LET T == Hash(alg, seed \o I2OSP(counter, 4))
         IN  IF len <= HashLen THEN SubSeq(T, 1, len)
             ELSE T \o MGF1(alg, seed, len - HashLen, counter + 1)

Zeros(len) == [i \in 1..len |-> 0]

\* padding.OAEP(mgf=padding.MGF1(algorithm=...), algorithm=..., label=None)
OAEP(mgf_alg, hash_alg) == [mgf |-> mgf_alg, algorithm |-> hash_alg, label |-> <<>>]

\* The longest plaintext OAEP takes under a modulus of k bytes and a digest
\* of hLen bytes.
OaepMaxLen(k, hLen) == k - 2 * hLen - 2

\* EME-OAEP encoding of M under a modulus of k bytes with the given seed.
OaepEncode(pad, M, seed, k) ==
    LET lHash == Hash(pad.algorithm, pad.label)
        PS == Zeros(k - Len(M) - 2 * HashLen - 2)
        DB == lHash \o PS \o <<1>> \o M
        maskedDB == XorBytes(DB, MGF1(pad.mgf, seed, k - HashLen - 1, 0))
        maskedSeed == XorBytes(seed, MGF1(pad.mgf, maskedDB, HashLen, 0))
    IN  <<0>> \o maskedSeed \o maskedDB

\* Position of the 01 byte that ends the zero padding of DB, 0 if none.
RECURSIVE Separator(_, _)
Separator(DB, i) ==
    IF i > Len(DB) THEN 0
    ELSE IF DB[i] = 1 THEN i
    ELSE IF DB[i] = 0 THEN Separator(DB, i + 1)
    ELSE 0

\* EME-OAEP decoding of EM: the message, or ValueError.
OaepDecode(pad, EM, k) ==
    IF k < 2 * HashLen + 2 THEN Raise("ValueError")
    ELSE
    LET lHash == Hash(pad.algorithm, pad.label)
        Y == EM[1]
        maskedSeed == SubSeq(EM, 2, HashLen + 1)
        maskedDB == SubSeq(EM, HashLen + 2, k)
        seed == XorBytes(maskedSeed, MGF1(pad.mgf, maskedDB, HashLen, 0))
        DB == XorBytes(maskedDB, MGF1(pad.mgf, seed, k - HashLen - 1, 0))
        sep == Separator(DB, HashLen + 1)
    IN  IF Y # 0 \/ SubSeq(DB, 1, HashLen) # lHash \/ sep = 0
        THEN Raise("ValueError")
        ELSE [ok |-> TRUE, bytes |-> SubSeq(DB, sep + 1, Len(DB))]

\* public_key.encrypt(plaintext, padding) with the OAEP seed it drew:
\* ValueError when the plaintext is too long for the modulus.
public_encrypt(pub, data, pad, seed) ==
    LET k == ByteLen(pub.n)
    IN  IF Len(data) > OaepMaxLen(k, HashLen) THEN Raise("ValueError")
        ELSE LET m == OS2IP(OaepEncode(pad, data, seed, k))
                 c == ModExp(m, pub.e, pub.n)
             IN  [ok |-> TRUE, bytes |-> I2OSP(c, k)]

\* private_key.decrypt(ciphertext, padding)
private_decrypt(priv, ct, pad) ==
    LET k == ByteLen(priv.n)
        c == OS2IP(ct)
    IN  IF Len(ct) # k \/ c >= priv.n THEN Raise("ValueError")
        ELSE OaepDecode(pad, I2OSP(ModExp(c, priv.d, priv.n), k), k)

\* The primes rsa.generate_private_key can draw for a key size: the modulus
\* of a key_size-bit key has key_size / 128 bits in the model.
PrimePairs(size) ==
    IF size = 2048 THEN {<<181, 191>>, <<193, 197>>, <<199, 211>>}
    ELSE IF size = 1024 THEN {<<11, 13>>, <<13, 17>>}
    ELSE {<<3, 5>>}

PrivateKey(p, q, e) ==
    LET phi == (p - 1) * (q - 1)
    IN  [n |-> p * q, e |-> e, p |-> p, q |-> q,
         d |-> CHOOSE d \in 1..phi : ((e % phi) * d) % phi = 1]

\* private_key.public_key()
PublicKeyOf(priv) == [n |-> priv.n, e |-> priv.e]

\* rsa.generate_private_key(public_exponent, key_size): its possible
\* outcomes. The package refuses a key size below its own minimum
\* (min_size: 512 bits in its older releases, 1024 in the newer ones).
generate_private_key(public_exponent, size, min_size) ==
    IF size < min_size THEN {Raise("ValueError")}
    ELSE {[ok |-> TRUE, key |-> PrivateKey(pq[1], pq[2], public_exponent)] :
            pq \in PrimePairs(size)}

\* Password-based encryption of a DER structure, and its inverse: every
\* field is shifted by a key stream derived from the password.
RECURSIVE KDF(_, _)
KDF(password, acc) ==
    IF password = <<>> THEN acc
    ELSE KDF(Tail(password), (acc * 131 + Head(password)) % 131071)

PbeEncrypt(password, der) ==
    LET K == KDF(password, 1)
    IN  [i \in 1..Len(der) |-> (der[i] + (K % 1021) * i + K) % 131071]

PbeDecrypt(password, data) ==
    LET K == KDF(password, 1)
    IN  [i \in 1..Len(data) |-> (data[i] + 131071 - (((K % 1021) * i + K) % 131071)) % 131071]

\* PKCS8 PrivateKeyInfo of an RSA key: version 0, then the key's numbers.
PrivateDER(key) == <<0, key.n, key.e, key.d, key.p, key.q>>

\* The key a PrivateKeyInfo holds, or ValueError when it is not one.
ParsePrivateDER(der) ==
    IF Len(der) = 6 /\ der[1] = 0 /\ der[5] * der[6] = der[2]
    THEN [ok |-> TRUE,
          key |-> [n |-> der[2], e |-> der[3], d |-> der[4], p |-> der[5], q |-> der[6]]]
    ELSE Raise("ValueError")

\* A Python bytes object; a password is one, or None.
bytes(X) == [bytes |-> X]

\* serialization.BestAvailableEncryption(password) / NoEncryption()
NoEncryption == [encrypted |-> FALSE]
BestAvailableEncryption(password) ==
    IF Len(password.bytes) = 0 THEN Raise("ValueError")
    ELSE [ok |-> TRUE, encrypted |-> TRUE, password |-> password.bytes]

\* private_key.private_bytes(Encoding.PEM, PrivateFormat.PKCS8, algorithm)
private_bytes(key, encryption_algo) ==
    IF encryption_algo.encrypted
    THEN [label |-> "ENCRYPTED PRIVATE KEY",
          data |-> PbeEncrypt(encryption_algo.password, PrivateDER(key))]
    ELSE [label |-> "PRIVATE KEY", data |-> PrivateDER(key)]

\* public_key.public_bytes(Encoding.PEM, PublicFormat.SubjectPublicKeyInfo)
public_bytes(key) == [label |-> "PUBLIC KEY", data |-> <<key.n, key.e>>]

\* serialization.load_pem_private_key(pem_data, password): TypeError when a
\* password is missing for an encrypted key or given for a clear one,
\* ValueError when the decrypted data is no private key.
load_pem_private_key(pem_data, password) ==
    IF pem_data.label = "ENCRYPTED PRIVATE KEY"
    THEN IF password = None THEN Raise("TypeError")
         ELSE ParsePrivateDER(PbeDecrypt(password.bytes, pem_data.data))
    ELSE IF pem_data.label = "PRIVATE KEY"
    THEN IF password # None THEN Raise("TypeError")
         ELSE ParsePrivateDER(pem_data.data)
    ELSE Raise("ValueError")

\* serialization.load_pem_public_key(pem_data)
load_pem_public_key(pem_data) ==
    IF pem_data.label = "PUBLIC KEY" /\ Len(pem_data.data) = 2
    THEN [ok |-> TRUE, key |-> [n |-> pem_data.data[1], e |-> pem_data.data[2]]]
    ELSE Raise("ValueError")

----------------------------------------------------------------------------
(* rsa_demo.py                                                             *)

\* generate_rsa_key_pair(key_size): its possible outcomes.
generate_rsa_key_pair(size, min_size) ==
    {IF r.ok THEN [ok |-> TRUE, private_key |-> r.key, public_key |-> PublicKeyOf(r.key)]
     ELSE r : r \in generate_private_key(65537, size, min_size)}

\* Mutant: the password is dropped and the key written in clear.
save_private_key_to_pem_clear(priv, password) ==
    [ok |-> TRUE, file |-> private_bytes(priv, NoEncryption)]

\* save_private_key_to_pem(private_key, filename, password): the file written.
save_private_key_to_pem(priv, password) ==
    LET encryption_algo ==
            IF password # None THEN BestAvailableEncryption(password)
            ELSE NoEncryption
    IN  IF password # None /\ ~encryption_algo.ok THEN encryption_algo
        ELSE [ok |-> TRUE, file |-> private_bytes(priv, encryption_algo)]

\* save_public_key_to_pem(public_key, filename): the file written.
save_public_key_to_pem(pub) == public_bytes(pub)

load_private_key_from_pem(file, password) == load_pem_private_key(file, password)

load_public_key_from_pem(file) == load_pem_public_key(file)

\* Drops the leading zero bytes of a byte string.
RECURSIVE StripZeros(_)
StripZeros(X) == IF X # <<>> /\ Head(X) = 0 THEN StripZeros(Tail(X)) ELSE X

\* Mutant: the ciphertext is returned without its leading zero bytes.
rsa_encrypt_stripped(pub, data, seed) ==
    LET r == public_encrypt(pub, data, OAEP("SHA256", "SHA256"), seed)
    IN  IF r.ok THEN [ok |-> TRUE, bytes |-> StripZeros(r.bytes)] ELSE r

rsa_encrypt(pub, data, seed) ==
    public_encrypt(pub, data, OAEP("SHA256", "SHA256"), seed)

\* Mutant: the mask generation function is built on another hash than the
\* one rsa_encrypt uses.
rsa_decrypt_sha1(priv, ct) ==
    private_decrypt(priv, ct, OAEP("SHA1", "SHA256"))

rsa_decrypt(priv, ct) ==
    private_decrypt(priv, ct, OAEP("SHA256", "SHA256"))

----------------------------------------------------------------------------
(* SpecRSA: the functions of rsa_demo.py called in the order of its main(): *)
(* generate, save both keys, load both keys, encrypt, decrypt; or encrypt   *)
(* and decrypt with the generated keys right away.                          *)

KeySizes == {512, 1024, 2048}

\* b"123456" (the password of main()), b"abc123", b"wrong" and b"".
Passwords ==
    {bytes(<<49, 50, 51, 52, 53, 54>>), bytes(<<97, 98, 99, 49, 50, 51>>),
     bytes(<<119, 114, 111, 110, 103>>), bytes(<<>>)}

Msg(len, v) == [i \in 1..len |-> IF v = 0 THEN 0 ELSE (v * i + i + v - 1) % Radix]

Plaintexts == {Msg(len, v) : len \in 0..MaxPlainLen, v \in 0..MaxPlainIdx}

OaepSeeds == {I2OSP(v, HashLen) : v \in 0..MaxOaepSeed}

RsaInit ==
    /\ ImgIdle
    /\ MainIdle
    /\ rpc = "start"
    /\ min_key_size \in {512, 1024}
    /\ key_size = None
    /\ private_key = None /\ public_key = None /\ save_password = None
    /\ private_pem = None /\ public_pem = None /\ load_password = None
    /\ loaded_private_key = None /\ loaded_public_key = None
    /\ reloaded = None /\ plaintext = None /\ ciphertext = None
    /\ decrypted = None

\* private_key, public_key = generate_rsa_key_pair(key_size)
RsaGenerate ==
    /\ rpc = "start"
    /\ \E ks \in KeySizes : \E r \in generate_rsa_key_pair(ks, min_key_size) :
        /\ key_size' = ks
        /\ IF r.ok
           THEN /\ private_key' = r.private_key
                /\ public_key' = r.public_key
                /\ rpc' = "generated"
           ELSE /\ UNCHANGED <<private_key, public_key>>
                /\ rpc' = "generate_failed"
    /\ UNCHANGED <<min_key_size, save_password, private_pem, public_pem,
                   load_password, loaded_private_key, loaded_public_key,
                   reloaded, plaintext, ciphertext, decrypted>>
    /\ UNCHANGED <<imgvars, mainvars>>

\* save_private_key_to_pem(private_key, "private_key.pem", password)
RsaSavePrivate ==
    /\ rpc = "generated"
    /\ \E password \in Passwords \cup {None} :
        LET r == save_private_key_to_pem(private_key, password)
        IN  /\ save_password' = password
            /\ IF r.ok
               THEN private_pem' = r.file /\ rpc' = "saved_private"
               ELSE UNCHANGED private_pem /\ rpc' = "save_failed"
    /\ UNCHANGED <<min_key_size, key_size, private_key, public_key, public_pem,
                   load_password, loaded_private_key, loaded_public_key,
                   reloaded, plaintext, ciphertext, decrypted>>
    /\ UNCHANGED <<imgvars, mainvars>>

\* save_public_key_to_pem(public_key, "public_key.pem")
RsaSavePublic ==
    /\ rpc = "saved_private"
    /\ public_pem' = save_public_key_to_pem(public_key)
    /\ rpc' = "saved"
    /\ UNCHANGED <<min_key_size, key_size, private_key, public_key,
                   save_password, private_pem, load_password,
                   loaded_private_key, loaded_public_key, reloaded, plaintext,
                   ciphertext, decrypted>>
    /\ UNCHANGED <<imgvars, mainvars>>

\* loaded_private_key = load_private_key_from_pem("private_key.pem", password)
RsaLoadPrivate ==
    /\ rpc = "saved"
    /\ \E password \in Passwords \cup {None} :
        /\ load_password' = password
        /\ loaded_private_key' = load_private_key_from_pem(private_pem, password)
    /\ rpc' = "loaded_private"
    /\ UNCHANGED <<min_key_size, key_size, private_key, public_key,
                   save_password, private_pem, public_pem, loaded_public_key,
                   reloaded, plaintext, ciphertext, decrypted>>
    /\ UNCHANGED <<imgvars, mainvars>>

\* loaded_public_key = load_public_key_from_pem("public_key.pem")
RsaLoadPublic ==
    /\ rpc = "loaded_private"
    /\ loaded_public_key' = load_public_key_from_pem(public_pem)
    /\ rpc' = "loaded"
    /\ UNCHANGED <<min_key_size, key_size, private_key, public_key,
                   save_password, private_pem, public_pem, load_password,
                   loaded_private_key, reloaded, plaintext, ciphertext,
                   decrypted>>
    /\ UNCHANGED <<imgvars, mainvars>>

\* ciphertext = rsa_encrypt(public key, plaintext): with the generated public
\* key before the keys are saved, with the reloaded one after.
RsaEncrypt ==
    /\ rpc \in {"generated", "loaded"}
    /\ rpc = "loaded" => loaded_public_key.ok
    /\ \E M \in Plaintexts, seed \in OaepSeeds :
        /\ plaintext' = M
        /\ ciphertext' = rsa_encrypt(IF rpc = "loaded" THEN loaded_public_key.key
                                     ELSE public_key, M, seed)
    /\ reloaded' = (rpc = "loaded")
    /\ rpc' = "encrypted"
    /\ UNCHANGED <<min_key_size, key_size, private_key, public_key,
                   save_password, private_pem, public_pem, load_password,
                   loaded_private_key, loaded_public_key, decrypted>>
    /\ UNCHANGED <<imgvars, mainvars>>

\* decrypted = rsa_decrypt(private key, ciphertext): with the reloaded private
\* key when the encryption used the reloaded public key and the private key
\* could be loaded, with the generated one otherwise.
RsaDecrypt ==
    /\ rpc = "encrypted"
    /\ ciphertext.ok
    /\ decrypted' = rsa_decrypt(IF reloaded /\ loaded_private_key.ok
                                THEN loaded_private_key.key
                                ELSE private_key, ciphertext.bytes)
    /\ rpc' = "decrypted"
    /\ UNCHANGED <<min_key_size, key_size, private_key, public_key,
                   save_password, private_pem, public_pem, load_password,
                   loaded_private_key, loaded_public_key, reloaded, plaintext,
                   ciphertext>>
    /\ UNCHANGED <<imgvars, mainvars>>

RsaNext ==
    \/ RsaGenerate
    \/ RsaSavePrivate
    \/ RsaSavePublic
    \/ RsaLoadPrivate
    \/ RsaLoadPublic
    \/ RsaEncrypt
    \/ RsaDecrypt

SpecRSA == RsaInit /\ [][RsaNext]_vars

----------------------------------------------------------------------------
(* Properties of the RSA functions.                                        *)

\* The public key rsa_encrypt was given in the current run.
UsedPublicKey == IF reloaded THEN loaded_public_key.key ELSE public_key

\* C4: with a key pair of generate_rsa_key_pair(2048), every plaintext within
\* the OAEP bound encrypts, and rsa_decrypt gives it back whatever the seed,
\* also with both keys saved to PEM and reloaded.
C4_RsaRoundTrip ==
    /\ (rpc = "encrypted" /\ key_size = 2048
            /\ Len(plaintext) <= OaepMaxLen(ByteLen(public_key.n), HashLen))
        => ciphertext.ok
    /\ (rpc = "decrypted" /\ key_size = 2048)
        => decrypted.ok /\ decrypted.bytes = plaintext

\* A plaintext of the greatest length, starting with a zero byte, decrypted
\* by the reloaded private key from a ciphertext made with the reloaded
\* public key.
C4_Witness ==
    /\ rpc = "decrypted" /\ key_size = 2048
    /\ reloaded /\ loaded_private_key.ok /\ load_password # None
    /\ Len(plaintext) = OaepMaxLen(ByteLen(public_key.n), HashLen)
    /\ Len(plaintext) > 1 /\ plaintext[1] = 0 /\ plaintext[2] # 0
    /\ ciphertext.bytes # I2OSP(0, Len(ciphertext.bytes))
    /\ decrypted.ok /\ decrypted.bytes = plaintext

\* C5 (as claimed): generate_rsa_key_pair fails for every key size below
\* 2048 and returns no key pair.
C5_SmallKeyRefused ==
    (rpc # "start" /\ key_size < 2048)
        => rpc = "generate_failed" /\ private_key = None /\ public_key = None

\* A ciphertext with its last byte changed.
Tampered(C) == [C EXCEPT ![Len(C)] = (@ + 1) % Radix]

\* C6: a private key saved under a non-empty password p loads only with p:
\* every other password, and no password, makes the load fail; with p the
\* loaded key has the numbers of the saved one and decrypts as it does.
C6_PasswordProtects ==
    (loaded_private_key # None /\ save_password # None
            /\ Len(save_password.bytes) > 0)
        => IF load_password = save_password
           THEN /\ loaded_private_key.ok
                /\ loaded_private_key.key = private_key
                /\ (ciphertext # None /\ ciphertext.ok)
                    => \A C \in {ciphertext.bytes, Tampered(ciphertext.bytes)} :
                          rsa_decrypt(loaded_private_key.key, C)
                              = rsa_decrypt(private_key, C)
           ELSE ~loaded_private_key.ok

\* A key saved under b"abc123" that b"wrong" failed to load.
C6_Witness ==
    /\ rpc = "loaded_private"
    /\ save_password = bytes(<<97, 98, 99, 49, 50, 51>>)
    /\ load_password = bytes(<<119, 114, 111, 110, 103>>)
    /\ private_pem.label = "ENCRYPTED PRIVATE KEY"
    /\ ~loaded_private_key.ok

\* C7: rsa_encrypt fails exactly when the plaintext is longer than
\* k - 2 * hLen - 2 bytes, k the byte length of the modulus (190 bytes for
\* 2048 bits and SHA-256), and every ciphertext has exactly k bytes.
C7_MessageTooLong ==
    /\ OaepMaxLen(2048 \div 8, 32) = 190
    /\ rpc = "encrypted"
        => LET k == ByteLen(UsedPublicKey.n)
           IN  /\ ~ciphertext.ok <=> Len(plaintext) > k - 2 * HashLen - 2
               /\ ciphertext.ok => Len(ciphertext.bytes) = k

\* A plaintext one byte too long refused. (The ciphertexts with a leading
\* zero byte are reached as well: C4_Witness shows a full round trip.)
C7_Witness ==
    /\ rpc = "encrypted" /\ key_size = 2048
    /\ Len(plaintext) = ByteLen(UsedPublicKey.n) - 2 * HashLen - 1
    /\ Len(plaintext) > 0
    /\ ~ciphertext.ok

====
